---- MODULE Spec2Model ----
(***************************************************************************)
(* A model of WordDocumentParser (word_parser++.py): the line pipeline of  *)
(* convert_to_markdown.  Lines and the document text are TLA+ strings, the *)
(* Python string methods and regular expressions the parser uses are       *)
(* operators on them, and every loop of the parser is stepped one          *)
(* iteration per action.                                                   *)
(***************************************************************************)
EXTENDS Integers, Sequences, FiniteSets, TLC

(***************************************************************************)
(* Python string primitives                                                *)
(***************************************************************************)

\* The whitespace characters str.lstrip()/rstrip()/split() and \s remove,
\* restricted to the ones the modelled inputs contain.
Whitespace == {" ", "\t"}

Digits == {"0", "1", "2", "3", "4", "5", "6", "7", "8", "9"}

\* s[a-1:b] of Python (TLA+ strings are 1-indexed): the characters a..b of s
\* that exist.
Slice(s, a, b) ==
    LET lo == IF a < 1 THEN 1 ELSE a
        hi == IF b > Len(s) THEN Len(s) ELSE b
    IN  IF lo > hi THEN "" ELSE SubSeq(s, lo, hi)

\* s[i-1:i]: the i-th character of s, "" beyond its end.
Ch(s, i) == Slice(s, i, i)

\* The length of the longest prefix of s made of characters of the set S.
LeadingCount(s, S) ==
    CHOOSE n \in 0..Len(s) :
        /\ \A k \in 1..n : Ch(s, k) \in S
        /\ (n = Len(s) \/ Ch(s, n + 1) \notin S)

\* The length of the longest suffix of s made of characters of the set S.
TrailingCount(s, S) ==
    CHOOSE n \in 0..Len(s) :
        /\ \A k \in (Len(s) - n + 1)..Len(s) : Ch(s, k) \in S
        /\ (n = Len(s) \/ Ch(s, Len(s) - n) \notin S)

\* str.lstrip(chars)
lstrip_chars(s, S) == Slice(s, LeadingCount(s, S) + 1, Len(s))

\* str.lstrip()
lstrip(s) == lstrip_chars(s, Whitespace)

\* str.rstrip()
rstrip(s) == Slice(s, 1, Len(s) - TrailingCount(s, Whitespace))

\* str.strip()
strip(s) == lstrip(rstrip(s))

\* str.startswith(p)
startswith(s, p) == Len(s) >= Len(p) /\ Slice(s, 1, Len(p)) = p

\* p in s
contains(s, p) ==
    \E k \in 1..(Len(s) - Len(p) + 1) : Slice(s, k, k + Len(p) - 1) = p

RECURSIVE Repeat(_, _)
\* s * n
Repeat(s, n) == IF n <= 0 THEN "" ELSE s \o Repeat(s, n - 1)

\* str(n) for a non-negative integer
RECURSIVE IntToStr(_)
IntToStr(n) ==
    LET d == CHOOSE c \in Digits :
                 c = Ch("0123456789", (n % 10) + 1)
    IN  IF n < 10 THEN d ELSE IntToStr(n \div 10) \o d

\* line.split()[0]: the first whitespace-delimited token of a line that has one.
FirstToken(s) ==
    LET t == lstrip(s)
    IN  Slice(t, 1, Len(t) - Len(lstrip_chars(t, {Ch(t, k) : k \in 1..Len(t)} \ Whitespace)))

(***************************************************************************)
(* Line classification                                                     *)
(***************************************************************************)

\* re.match(r'^\d+\.', s)
MatchNumberDot(s) ==
    LET n == LeadingCount(s, Digits)
    IN  n >= 1 /\ n < Len(s) /\ Ch(s, n + 1) = "."

\* re.sub(r'^\d+\.\s*', '', s)
SubNumberDot(s) ==
    IF MatchNumberDot(s)
    THEN lstrip(Slice(s, LeadingCount(s, Digits) + 2, Len(s)))
    ELSE s

\* HEADING_PATTERN.match(line), r'^#+\s'
HEADING_PATTERN(line) ==
    LET n == LeadingCount(line, {"#"})
    IN  n >= 1 /\ n < Len(line) /\ Ch(line, n + 1) \in Whitespace

is_list_item(line) ==
    LET stripped == lstrip(line)
    IN  /\ stripped # ""
        /\ \/ startswith(stripped, "*")
           \/ startswith(stripped, "-")
           \/ startswith(stripped, "+")
           \/ MatchNumberDot(stripped)

get_indent_level(line) == Len(line) - Len(lstrip(line))

(***************************************************************************)
(* _process_list_block                                                     *)
(***************************************************************************)

\* First pass: the distinct widths of the block's list items, in the order
\* each is first seen; indent_to_level maps the k-th of them to k - 1.
RECURSIVE FirstSeenWidths(_, _)
FirstSeenWidths(lines, seen) ==
    IF lines = <<>> THEN seen
    ELSE LET line == Head(lines)
             indent == get_indent_level(line)
             known == {seen[k] : k \in 1..Len(seen)}
         IN  IF is_list_item(line) /\ indent \notin known
             THEN FirstSeenWidths(Tail(lines), Append(seen, indent))
             ELSE FirstSeenWidths(Tail(lines), seen)

\* A level map that ranks the widths by magnitude instead of first appearance.
indent_to_level_by_magnitude(lines) ==
    LET seen == FirstSeenWidths(lines, <<>>)
        widths == {seen[k] : k \in 1..Len(seen)}
    IN  [w \in widths |-> Cardinality({v \in widths : v < w})]

indent_to_level(lines) ==
    LET seen == FirstSeenWidths(lines, <<>>)
    IN  [w \in {seen[k] : k \in 1..Len(seen)} |->
            (CHOOSE k \in 1..Len(seen) : seen[k] = w) - 1]

Abs(x) == IF x < 0 THEN -x ELSE x

\* min(indent_levels, key=lambda x: abs(x - indent)) over the sorted widths:
\* the smallest of the widths at minimal distance.
closest_indent(indent_levels, indent) ==
    CHOOSE x \in indent_levels :
        \A y \in indent_levels :
            \/ Abs(x - indent) < Abs(y - indent)
            \/ (Abs(x - indent) = Abs(y - indent) /\ x <= y)

LIST_BLOCK_COMMENT == "<!-- Type: List Block -->"

\* The second pass on one line.
NormalizeLine(line, map) ==
    LET stripped == lstrip(line)
        indent == get_indent_level(line)
        level == map[closest_indent(DOMAIN map, indent)]
    IN  IF stripped = "" THEN line
        ELSE IF is_list_item(line)
        THEN LET content == IF MatchNumberDot(stripped)
                            THEN SubNumberDot(stripped)
                            ELSE lstrip(lstrip_chars(stripped, {"*", "-", "+"}))
             IN  Repeat("  ", level) \o "* " \o content
        ELSE Repeat("  ", level + 1) \o stripped

\* min() of an empty sequence raises ValueError: a block with a non-blank
\* line and no list item.
process_list_block_raises(lines) ==
    /\ indent_to_level(lines) = << >>
    /\ \E k \in 1..Len(lines) : lstrip(lines[k]) # ""

process_list_block(lines) ==
    IF lines = <<>> THEN <<>>
    ELSE LET map == indent_to_level(lines)
         IN  Append([k \in 1..Len(lines) |-> NormalizeLine(lines[k], map)],
                    LIST_BLOCK_COMMENT)


(***************************************************************************)
(* _add_metadata                                                           *)
(***************************************************************************)

TABLE_COMMENT == "<!-- Type: Table -->"

IMAGE_COMMENT == "<!-- Type: Image -->"

TEXT_COMMENT == "<!-- Type: Text Body -->"

HeadingComment(level) == "<!-- Type: Heading " \o IntToStr(level) \o " -->"

\* The lines _add_metadata returns for one line (the first component of its
\* result; the metadata tag, the second, is dropped by every caller).
add_metadata(raw, in_list_arg) ==
    LET line == rstrip(raw)
    IN  IF line = "" THEN <<line>>
        ELSE IF HEADING_PATTERN(line)
        THEN <<line, HeadingComment(Len(FirstToken(line)))>>
        ELSE IF is_list_item(line) THEN <<line>>
        ELSE IF startswith(strip(line), "|") /\ contains(line, "-|-")
        THEN <<line, TABLE_COMMENT>>
        ELSE IF startswith(strip(line), "|") THEN <<line>>
        ELSE IF contains(line, "![") /\ contains(line, "](")
        THEN <<line, IMAGE_COMMENT>>
        ELSE IF strip(line) # "" /\ ~in_list_arg THEN <<line, TEXT_COMMENT>>
        ELSE <<line>>

(***************************************************************************)
(* State                                                                   *)
(***************************************************************************)

VARIABLES
    raw_lines,        \* raw_markdown.splitlines(): the converter's output for the file
    rels,             \* document.part.rels.values(), in iteration order
    doc_runs,         \* the r:embed id of the first blip of each run that has one
    extract_images_option,
    pc,               \* the position in convert_to_markdown
    image_map,        \* the ordered dict rId -> ImageInfo, as a sequence of entries
    image_counter,
    idx,              \* the index of the next element of the loop pc names
    result,           \* _process_nested_lists: result
    list_block,       \* _process_nested_lists: list_block
    in_list,          \* _process_nested_lists: in_list
    calls,            \* the calls of _process_list_block made so far: argument,
                      \* position of its first line in raw_lines, and return value
    processed_lines,
    markdown_lines,
    current_table,
    in_table,
    content,
    block,            \* a list block given to _process_list_block on its own
    normalized,       \* its normalisation without the trailing comment
    renormalized      \* the normalisation of normalized, without the comment

vars == <<raw_lines, rels, doc_runs, extract_images_option, pc, image_map,
          image_counter, idx, result, list_block, in_list, calls,
          processed_lines, markdown_lines, current_table, in_table, content,
          block, normalized, renormalized>>

document == <<raw_lines, rels, doc_runs, extract_images_option>>

list_vars == <<result, list_block, in_list, calls, processed_lines>>

table_vars == <<markdown_lines, current_table, in_table>>

block_vars == <<block, normalized, renormalized>>

\* file_path.stem of the document being converted.
STEM == "doc"

\* The state after __init__ of a parser for the document (L, R, B, X), about to
\* run convert_to_markdown.
InitDocument(L, R, B, X) ==
    /\ raw_lines \in L
    /\ rels \in R
    /\ doc_runs \in B
    /\ extract_images_option \in X
    /\ pc = "collect"
    /\ image_map = <<>>
    /\ image_counter = 0
    /\ idx = 1
    /\ result = <<>>
    /\ list_block = <<>>
    /\ in_list = FALSE
    /\ calls = <<>>
    /\ processed_lines = <<>>
    /\ markdown_lines = <<>>
    /\ current_table = <<>>
    /\ in_table = FALSE
    /\ content = ""
    /\ block = <<>>
    /\ normalized = <<>>
    /\ renormalized = <<>>

(***************************************************************************)
(* _collect_images, _process_image                                         *)
(***************************************************************************)

\* rel.target_part.content_type.split('/')[-1]
Extension(content_type) ==
    LET slashes == {k \in 1..Len(content_type) : Ch(content_type, k) = "/"}
        last == IF slashes = {} THEN 0
                ELSE CHOOSE k \in slashes : \A m \in slashes : m <= k
    IN  Slice(content_type, last + 1, Len(content_type))

\* The rIds of the internal relationships whose target is an ImagePart.
image_rels ==
    {rels[k].rId : k \in {k \in 1..Len(rels) :
                             ~rels[k].is_external /\ rels[k].is_image}}

RelOf(rId) == rels[CHOOSE k \in 1..Len(rels) : rels[k].rId = rId]

process_image(rId, counter) ==
    [rId |-> rId,
     filename |-> STEM \o "_" \o IntToStr(counter) \o "."
                       \o Extension(RelOf(rId).content_type)]

\* image_map[rId] = image_info on an insertion-ordered dict: a known key keeps
\* its place, a new key goes to the end.
DictSet(map, entry) ==
    IF \E k \in 1..Len(map) : map[k].rId = entry.rId
    THEN [k \in 1..Len(map) |-> IF map[k].rId = entry.rId THEN entry ELSE map[k]]
    ELSE Append(map, entry)

\* The loop over the runs: the (image_map, image_counter) it ends with.
RECURSIVE CollectRuns(_, _, _)
CollectRuns(runs, map, counter) ==
    IF runs = <<>> THEN <<map, counter>>
    ELSE IF Head(runs) \notin image_rels
    THEN CollectRuns(Tail(runs), map, counter)
    ELSE CollectRuns(Tail(runs),
                     DictSet(map, process_image(Head(runs), counter)),
                     counter + 1)

\* self._collect_images(); self._save_images(); reading the converter's output.
CollectImages ==
    /\ pc = "collect"
    /\ LET r == IF extract_images_option
                THEN CollectRuns(doc_runs, image_map, image_counter)
                ELSE <<image_map, image_counter>>
       IN  /\ image_map' = r[1]
           /\ image_counter' = r[2]
    /\ pc' = "lists"
    /\ idx' = 1
    /\ UNCHANGED <<document, list_vars, table_vars, content, block_vars>>

(***************************************************************************)
(* _process_nested_lists                                                   *)
(***************************************************************************)

\* One call of _process_list_block on the block whose first line is line
\* `first` of raw_lines.
Call(lines, first) ==
    [block |-> lines, first |-> first, out |-> process_list_block(lines)]

\* The loop body without the in_list test on a non-blank non-list line: such
\* a line joins list_block also outside a list.
ListsStep_append_outside_list ==
    /\ pc = "lists"
    /\ idx <= Len(raw_lines)
    /\ LET line == raw_lines[idx]
           stripped == lstrip(line)
           flush == list_block # <<>>
           call == Call(list_block, idx - Len(list_block))
       IN  IF is_list_item(line)
           THEN IF ~in_list /\ flush /\ process_list_block_raises(list_block)
                THEN /\ pc' = "failed"
                     /\ UNCHANGED <<idx, list_vars>>
                ELSE /\ result' = IF ~in_list /\ flush
                                  THEN result \o call.out ELSE result
                     /\ calls' = IF ~in_list /\ flush
                                 THEN Append(calls, call) ELSE calls
                     /\ list_block' = IF ~in_list /\ flush
                                      THEN <<line>> ELSE Append(list_block, line)
                     /\ in_list' = TRUE
                     /\ idx' = idx + 1
                     /\ UNCHANGED <<pc, processed_lines>>
           ELSE IF stripped # ""
           THEN /\ list_block' = Append(list_block, line)
                /\ idx' = idx + 1
                /\ UNCHANGED <<pc, result, in_list, calls, processed_lines>>
           ELSE IF in_list
           THEN IF flush /\ process_list_block_raises(list_block)
                THEN /\ pc' = "failed"
                     /\ UNCHANGED <<idx, list_vars>>
                ELSE /\ result' = (IF flush THEN result \o call.out ELSE result)
                                      \o <<line>>
                     /\ calls' = IF flush THEN Append(calls, call) ELSE calls
                     /\ list_block' = <<>>
                     /\ in_list' = FALSE
                     /\ idx' = idx + 1
                     /\ UNCHANGED <<pc, processed_lines>>
           ELSE /\ result' = result \o add_metadata(line, FALSE)
                /\ idx' = idx + 1
                /\ UNCHANGED <<pc, list_block, in_list, calls, processed_lines>>
    /\ UNCHANGED <<document, image_map, image_counter, table_vars, content,
                   block_vars>>

\* One iteration of `for line in lines`.
ListsStep ==
    /\ pc = "lists"
    /\ idx <= Len(raw_lines)
    /\ LET line == raw_lines[idx]
           stripped == lstrip(line)
           flush == list_block # <<>>
           call == Call(list_block, idx - Len(list_block))
       IN  IF is_list_item(line)
           THEN IF ~in_list /\ flush /\ process_list_block_raises(list_block)
                THEN /\ pc' = "failed"
                     /\ UNCHANGED <<idx, list_vars>>
                ELSE /\ result' = IF ~in_list /\ flush
                                  THEN result \o call.out ELSE result
                     /\ calls' = IF ~in_list /\ flush
                                 THEN Append(calls, call) ELSE calls
                     /\ list_block' = IF ~in_list /\ flush
                                      THEN <<line>> ELSE Append(list_block, line)
                     /\ in_list' = TRUE
                     /\ idx' = idx + 1
                     /\ UNCHANGED <<pc, processed_lines>>
           ELSE IF in_list /\ stripped # ""
           THEN /\ list_block' = Append(list_block, line)
                /\ idx' = idx + 1
                /\ UNCHANGED <<pc, result, in_list, calls, processed_lines>>
           ELSE IF in_list
           THEN IF flush /\ process_list_block_raises(list_block)
                THEN /\ pc' = "failed"
                     /\ UNCHANGED <<idx, list_vars>>
                ELSE /\ result' = (IF flush THEN result \o call.out ELSE result)
                                      \o <<line>>
                     /\ calls' = IF flush THEN Append(calls, call) ELSE calls
                     /\ list_block' = <<>>
                     /\ in_list' = FALSE
                     /\ idx' = idx + 1
                     /\ UNCHANGED <<pc, processed_lines>>
           ELSE /\ result' = result \o add_metadata(line, FALSE)
                /\ idx' = idx + 1
                /\ UNCHANGED <<pc, list_block, in_list, calls, processed_lines>>
    /\ UNCHANGED <<document, image_map, image_counter, table_vars, content,
                   block_vars>>

\* After the loop: the last block is flushed and the result returned.
ListsEnd ==
    /\ pc = "lists"
    /\ idx > Len(raw_lines)
    /\ LET flush == list_block # <<>>
           call == Call(list_block, idx - Len(list_block))
       IN  IF flush /\ process_list_block_raises(list_block)
           THEN /\ pc' = "failed"
                /\ UNCHANGED <<idx, list_vars>>
           ELSE /\ result' = IF flush THEN result \o call.out ELSE result
                /\ calls' = IF flush THEN Append(calls, call) ELSE calls
                /\ processed_lines' = result'
                /\ pc' = "tables"
                /\ idx' = 1
                /\ UNCHANGED <<list_block, in_list>>
    /\ UNCHANGED <<document, image_map, image_counter, table_vars, content,
                   block_vars>>

(***************************************************************************)
(* convert_to_markdown: the table-grouping loop                            *)
(***************************************************************************)

IsTableLine(line) == startswith(strip(line), "|")

\* '\n'.join(lines)
RECURSIVE Join(_)
Join(lines) ==
    IF lines = <<>> THEN ""
    ELSE IF Len(lines) = 1 THEN lines[1]
    ELSE lines[1] \o "\n" \o Join(Tail(lines))

\* One iteration of `for line in processed_lines`.
TablesStep ==
    /\ pc = "tables"
    /\ idx <= Len(processed_lines)
    /\ LET line == processed_lines[idx]
       IN  IF contains(line, "<!-- Type:")
           THEN /\ markdown_lines' = Append(markdown_lines, line)
                /\ UNCHANGED <<current_table, in_table>>
           ELSE IF IsTableLine(line)
           THEN /\ current_table' = IF ~in_table THEN <<line>>
                                    ELSE Append(current_table, line)
                /\ in_table' = TRUE
                /\ UNCHANGED markdown_lines
           ELSE IF in_table
           THEN /\ markdown_lines' = markdown_lines \o current_table \o <<"", line>>
                /\ current_table' = <<>>
                /\ in_table' = FALSE
           ELSE /\ markdown_lines' = Append(markdown_lines, line)
                /\ UNCHANGED <<current_table, in_table>>
    /\ idx' = idx + 1
    /\ UNCHANGED <<document, pc, image_map, image_counter, list_vars, content,
                   block_vars>>

\* After the loop: an open table is flushed, and the lines are joined.
TablesEnd ==
    /\ pc = "tables"
    /\ idx > Len(processed_lines)
    /\ markdown_lines' = IF current_table # <<>>
                         THEN markdown_lines \o current_table \o <<"">>
                         ELSE markdown_lines
    /\ content' = Join(markdown_lines')
    /\ pc' = "images"
    /\ idx' = 1
    /\ UNCHANGED <<document, image_map, image_counter, list_vars, current_table,
                   in_table, block_vars>>

(***************************************************************************)
(* convert_to_markdown: image resolution                                   *)
(***************************************************************************)

\* The smallest element of a non-empty set of integers.
Min(S) == CHOOSE x \in S : \A y \in S : x <= y

\* The positions k >= from of text where the literal p starts.
Occurrences(text, p, from) ==
    {k \in from..(Len(text) - Len(p) + 1) : Slice(text, k, k + Len(p) - 1) = p}

\* IMAGE_PATTERN = r'!\[.*?\]\(data:image[^\)]*\)' tried at position s: the
\* position of the last character of the match, 0 when there is none.  The
\* lazy .*? stops at the first "](data:image" it can reach without crossing a
\* line break; [^\)]* then runs to the first ")" (line breaks included).
ImageMatchEnd(text, s) ==
    IF Slice(text, s, s + 1) # "![" THEN 0
    ELSE LET heads == {p \in Occurrences(text, "](data:image", s + 2) :
                          /\ ~contains(Slice(text, s + 2, p - 1), "\n")
                          /\ Occurrences(text, ")", p + 12) # {}}
         IN  IF heads = {} THEN 0
             ELSE Min(Occurrences(text, ")", Min(heads) + 12))

\* The (start, end) of the leftmost match of IMAGE_PATTERN at or after
\* `from`, <<0, 0>> when there is none.
ImageSearch(text, from) ==
    LET starts == {s \in from..Len(text) : ImageMatchEnd(text, s) > 0}
    IN  IF starts = {} THEN <<0, 0>>
        ELSE <<Min(starts), ImageMatchEnd(text, Min(starts))>>

\* IMAGE_PATTERN.sub(image_tag, content, 1)
ImageSubFirst(image_tag, text) ==
    LET m == ImageSearch(text, 1)
    IN  IF m[1] = 0 THEN text
        ELSE Slice(text, 1, m[1] - 1) \o image_tag
                 \o Slice(text, m[2] + 1, Len(text))

ImageTag(filename) == "![Image](images/" \o filename \o ")"

\* One iteration of `for rId, image_info in self.image_map.items()`.
ImagesStep ==
    /\ pc = "images"
    /\ idx <= Len(image_map)
    /\ content' = ImageSubFirst(ImageTag(image_map[idx].filename), content)
    /\ idx' = idx + 1
    /\ UNCHANGED <<document, pc, image_map, image_counter, list_vars, table_vars,
                   block_vars>>

ImagesEnd ==
    /\ pc = "images"
    /\ idx > Len(image_map)
    /\ pc' = "links"
    /\ idx' = 1
    /\ UNCHANGED <<document, image_map, image_counter, list_vars, table_vars,
                   content, block_vars>>

(***************************************************************************)
(* convert_to_markdown: link resolution                                    *)
(***************************************************************************)

\* The ASCII letters re rejects after a backslash in a replacement template
\* ("bad escape"): all but the escapes it knows and the group reference \g.
BadEscapes ==
    {"c", "d", "e", "h", "i", "j", "k", "l", "m", "o", "p", "q", "s", "u", "w",
     "x", "y", "z", "A", "B", "C", "D", "E", "F", "G", "H", "I", "J", "K", "L",
     "M", "N", "O", "P", "Q", "R", "S", "T", "U", "V", "W", "X", "Y", "Z"}

\* re's parse of a replacement template: it raises on a bad escape, also when
\* the pattern matches nowhere.  (Of the escapes re accepts, the model knows
\* \n, \t, \\ and the group reference \1; others do not occur in its inputs.)
RECURSIVE TemplateRaises(_)
TemplateRaises(t) ==
    IF t = "" THEN FALSE
    ELSE IF Ch(t, 1) # "\\" THEN TemplateRaises(Slice(t, 2, Len(t)))
    ELSE IF Len(t) = 1 THEN TRUE
    ELSE IF Ch(t, 2) \in BadEscapes THEN TRUE
    ELSE TemplateRaises(Slice(t, 3, Len(t)))

\* The text a parsed template stands for, with \1 the text of group 1.
RECURSIVE ExpandTemplate(_, _)
ExpandTemplate(t, group1) ==
    IF t = "" THEN ""
    ELSE IF Ch(t, 1) # "\\" \/ Len(t) = 1
    THEN Ch(t, 1) \o ExpandTemplate(Slice(t, 2, Len(t)), group1)
    ELSE LET c == Ch(t, 2)
             rest == ExpandTemplate(Slice(t, 3, Len(t)), group1)
         IN  IF c = "1" THEN group1 \o rest
             ELSE IF c = "n" THEN "\n" \o rest
             ELSE IF c = "t" THEN "\t" \o rest
             ELSE IF c = "\\" THEN "\\" \o rest
             ELSE "\\" \o c \o rest

\* rf'\[([^\]]*)\]\(rel="{rId}"\)' tried at position s: the position of the
\* "]" that closes group 1, 0 when there is no match at s.  [^\]]* runs to the
\* first "]" after s, which the rest of the pattern must follow.
LinkMatchClose(text, rId, s) ==
    LET tail == "](rel=\"" \o rId \o "\")"
        closes == Occurrences(text, "]", s + 1)
    IN  IF Ch(text, s) # "[" \/ closes = {} THEN 0
        ELSE IF Slice(text, Min(closes), Min(closes) + Len(tail) - 1) = tail
        THEN Min(closes)
        ELSE 0

\* re.sub(pattern, template, text): every non-overlapping match, left to
\* right, from position `from` on.
RECURSIVE LinkSubAll(_, _, _, _)
LinkSubAll(text, rId, template, from) ==
    LET starts == {s \in from..Len(text) : LinkMatchClose(text, rId, s) > 0}
    IN  IF starts = {} THEN Slice(text, from, Len(text))
        ELSE LET s == Min(starts)
                 close == LinkMatchClose(text, rId, s)
                 stop == close + Len("](rel=\"" \o rId \o "\")")
             IN  Slice(text, from, s - 1)
                     \o ExpandTemplate(template, Slice(text, s + 1, close - 1))
                     \o LinkSubAll(text, rId, template, stop)

\* f"[\\1]({rel.target_ref})"
LinkTemplate(target_ref) == "[\\1](" \o target_ref \o ")"

\* One iteration of `for rel in self.document.part.rels.values()`.
LinksStep ==
    /\ pc = "links"
    /\ idx <= Len(rels)
    /\ LET rel == rels[idx]
       IN  IF ~rel.is_external
           THEN /\ idx' = idx + 1
                /\ UNCHANGED <<pc, content>>
           ELSE IF TemplateRaises(LinkTemplate(rel.target_ref))
           THEN /\ pc' = "failed"
                /\ UNCHANGED <<idx, content>>
           ELSE /\ content' = LinkSubAll(content, rel.rId,
                                         LinkTemplate(rel.target_ref), 1)
                /\ idx' = idx + 1
                /\ UNCHANGED pc
    /\ UNCHANGED <<document, image_map, image_counter, list_vars, table_vars,
                   block_vars>>

\* return content
Return ==
    /\ pc = "links"
    /\ idx > Len(rels)
    /\ pc' = "done"
    /\ UNCHANGED <<document, image_map, image_counter, idx, list_vars,
                   table_vars, content, block_vars>>

Next ==
    \/ CollectImages
    \/ ListsStep
    \/ ListsEnd
    \/ TablesStep
    \/ TablesEnd
    \/ ImagesStep
    \/ ImagesEnd
    \/ LinksStep
    \/ Return

(***************************************************************************)
(* Documents                                                               *)
(***************************************************************************)

\* The sequences of at most n elements of S.
SeqUpTo(S, n) == UNION {[1..m -> S] : m \in 0..n}

ImageRel(rId) ==
    [rId |-> rId, is_external |-> FALSE, is_image |-> TRUE,
     content_type |-> "image/png", target_ref |-> "media/image.png"]

LinkRel(rId, url) ==
    [rId |-> rId, is_external |-> TRUE, is_image |-> FALSE,
     content_type |-> "", target_ref |-> url]

MaxLines == 3

\* Lines of every category the parser tells apart: headings, list items with
\* each marker, lines that only begin like a list item, table rows and a
\* table separator, an image placeholder, body text and the blank line.
Vocabulary ==
    {"# T", "## T", "* a", "  - b", "1. c", "* 1. d", "**e**", "-5", "1.5 f",
     "| g |", "|-|-|", "text", "![i](data:image/png)", ""}

Init ==
    InitDocument(SeqUpTo(Vocabulary, MaxLines),
                 {<<ImageRel("rId1"), LinkRel("rId2", "http://a")>>},
                 {<<"rId1">>},
                 {TRUE})

Spec == Init /\ [][Next]_vars

(***************************************************************************)
(* Documents made of list lines: items at several widths with a bullet or  *)
(* a number, a continuation line and the blank line.                       *)
(***************************************************************************)

MaxListLines == 4

ListVocabulary ==
    {"* a", " * a", "   * a", "   2. b", " c", ""}

InitLists ==
    InitDocument(SeqUpTo(ListVocabulary, MaxListLines),
                 {<<LinkRel("rId2", "http://a"), ImageRel("rId1")>>},
                 {<<"rId1">>},
                 {TRUE})

SpecLists == InitLists /\ [][Next]_vars

(***************************************************************************)
(* Documents with image placeholders, alone and two on a line, whose runs  *)
(* embed up to MaxRuns images.                                             *)
(***************************************************************************)

MaxImageLines == 2

MaxRuns == 3

ImageVocabulary ==
    {"![a](data:image/png)",
     "![b](data:image/png) ![c](data:image/png)",
     "x ![d](data:image/png)",
     "text"}

InitImages ==
    InitDocument(SeqUpTo(ImageVocabulary, MaxImageLines),
                 {<<ImageRel("rId1"), LinkRel("rId2", "http://a"), ImageRel("rId3")>>},
                 SeqUpTo({"rId1", "rId3", "rId4"}, MaxRuns),
                 BOOLEAN)

SpecImages == InitImages /\ [][Next]_vars

(***************************************************************************)
(* Documents with link placeholders, and external relationships whose      *)
(* targets are URLs or Windows paths.                                      *)
(***************************************************************************)

MaxLinkLines == 2

LinkVocabulary ==
    {"[t](rel=\"rId1\")",
     "[u](rel=\"rId10\")",
     "[v](rel=\"rId1\") [w](rel=\"rId3\")",
     "text"}

LinkTargets == {"http://a", "http://b", "C:\\new", "\\\\srv\\doc"}

LinkRelSeqs ==
    LET one == {LinkRel(r, u) : r \in {"rId1", "rId10"}, u \in LinkTargets}
    IN  {<<>>} \cup {<<a>> : a \in one}
            \cup {<<p[1], p[2]>> : p \in {p \in one \X one : p[1].rId # p[2].rId}}

InitLinks ==
    InitDocument(SeqUpTo(LinkVocabulary, MaxLinkLines),
                 {<<ImageRel("rId5")>> \o r : r \in LinkRelSeqs},
                 {<<"rId5">>},
                 {TRUE})

SpecLinks == InitLinks /\ [][Next]_vars

(***************************************************************************)
(* _process_list_block on its own: a block is normalised, and the result   *)
(* (without the trailing comment) normalised again.                        *)
(***************************************************************************)

\* lines[:-1]
DropLast(lines) == SubSeq(lines, 1, Len(lines) - 1)

Normalize ==
    /\ pc = "normalize"
    /\ normalized' = DropLast(process_list_block(block))
    /\ pc' = "renormalize"
    /\ UNCHANGED <<document, image_map, image_counter, idx, list_vars,
                   table_vars, content, block, renormalized>>

Renormalize ==
    /\ pc = "renormalize"
    /\ renormalized' = DropLast(process_list_block(normalized))
    /\ pc' = "block_done"
    /\ UNCHANGED <<document, image_map, image_counter, idx, list_vars,
                   table_vars, content, block, normalized>>

NextBlock ==
    \/ Normalize
    \/ Renormalize

MaxBlockLines == 3

BlockWidths == {0, 1, 2, 4}

BlockBodies == {"* a", "2. b", "c"}

BlockVocabulary == {Repeat(" ", w) \o b : w \in BlockWidths, b \in BlockBodies}

\* The ListBlocks: a list item, then list items and continuation lines.
ListBlocks ==
    {b \in SeqUpTo(BlockVocabulary, MaxBlockLines) :
        b # <<>> /\ is_list_item(b[1])}

InitBlock ==
    /\ block \in ListBlocks
    /\ pc = "normalize"
    /\ normalized = <<>>
    /\ renormalized = <<>>
    /\ raw_lines = <<>>
    /\ rels = <<>>
    /\ doc_runs = <<>>
    /\ extract_images_option = TRUE
    /\ image_map = <<>>
    /\ image_counter = 0
    /\ idx = 1
    /\ result = <<>>
    /\ list_block = <<>>
    /\ in_list = FALSE
    /\ calls = <<>>
    /\ processed_lines = <<>>
    /\ markdown_lines = <<>>
    /\ current_table = <<>>
    /\ in_table = FALSE
    /\ content = ""

SpecBlock == InitBlock /\ [][NextBlock]_vars

(***************************************************************************)
(* Properties                                                              *)
(***************************************************************************)

\* _process_nested_lists has returned.
ListsDone == pc \in {"tables", "images", "links", "done"}

\* The table-grouping loop has ended and its lines are joined.
TablesDone == pc \in {"images", "links", "done"}

IsBlank(line) == strip(line) = ""

\* text.split("\n")
RECURSIVE Split(_)
Split(text) ==
    LET breaks == Occurrences(text, "\n", 1)
    IN  IF breaks = {} THEN <<text>>
        ELSE <<Slice(text, 1, Min(breaks) - 1)>>
                 \o Split(Slice(text, Min(breaks) + 1, Len(text)))

\* C1: in the lines the table-grouping loop emits, the last line of every
\* table that is followed by a non-blank line further down is separated from
\* the next non-blank line by exactly one blank line, whatever follows the
\* table in the input.
C1_ExactlyOneBlankAfterTable ==
    TablesDone =>
        \A k \in 1..(Len(markdown_lines) - 1) :
            LET later == {m \in (k + 1)..Len(markdown_lines) :
                             ~IsBlank(markdown_lines[m])}
            IN  (/\ IsTableLine(markdown_lines[k])
                 /\ ~IsTableLine(markdown_lines[k + 1])
                 /\ later # {})
                => (Min(later) = k + 2 /\ markdown_lines[k + 1] = "")

\* The text with the image loop applied: the input of the link loop.
RECURSIVE AfterImages(_, _)
AfterImages(text, images) ==
    IF images = <<>> THEN text
    ELSE AfterImages(ImageSubFirst(ImageTag(Head(images).filename), text),
                     Tail(images))

\* Positional resolution: the i-th placeholder of the text (the i-th match of
\* IMAGE_PATTERN, in document order) becomes the tag of the i-th image, and a
\* placeholder beyond the images is kept as it is.
RECURSIVE Positional(_, _, _, _)
Positional(text, images, from, i) ==
    LET m == ImageSearch(text, from)
    IN  IF m[1] = 0 THEN Slice(text, from, Len(text))
        ELSE Slice(text, from, m[1] - 1)
                 \o (IF i <= Len(images) THEN ImageTag(images[i].filename)
                     ELSE Slice(text, m[1], m[2]))
                 \o Positional(text, images, m[2] + 1, i + 1)

\* C2: after the image loop the i-th placeholder of the joined text is
\* replaced by the tag of the i-th image for every i up to the number of
\* images, every further placeholder is still in the text, and nothing else
\* has changed.
C2_ImagesResolvedByPosition ==
    (pc = "links" /\ idx = 1) =>
        content = Positional(Join(markdown_lines), image_map, 1, 1)

\* C3: every input line that is a heading of n "#" is, in the output of
\* _process_nested_lists, immediately followed by the comment of a heading of
\* level n, whatever precedes it in the input.
C3_HeadingFollowedByComment ==
    ListsDone =>
        \A k \in 1..Len(raw_lines) :
            HEADING_PATTERN(rstrip(raw_lines[k])) =>
                \E m \in 1..(Len(processed_lines) - 1) :
                    /\ processed_lines[m] = rstrip(raw_lines[k])
                    /\ processed_lines[m + 1] =
                           HeadingComment(LeadingCount(raw_lines[k], {"#"}))

\* C4: normalising a normalised ListBlock again gives the same lines.
C4_RenormalizeIdempotent ==
    pc = "block_done" => renormalized = normalized

\* The list items of a block, by position.
Items(lines) == {k \in 1..Len(lines) : is_list_item(lines[k])}

\* The number of distinct widths of list items seen in the block before the
\* width of item k is first seen.
FirstSeenRank(lines, k) ==
    LET first == Min({q \in Items(lines) :
                         get_indent_level(lines[q]) = get_indent_level(lines[k])})
    IN  Cardinality({get_indent_level(lines[q]) :
                        q \in {q \in Items(lines) : q < first}})

\* C5: in every block given to _process_list_block, the list item whose width
\* is the j-th distinct width of the block in first-seen order (j from 0) is
\* emitted with exactly 2*j leading spaces before its marker; j depends on the
\* lines of that block alone.
C5_LevelIsFirstSeenRank ==
    \A n \in 1..Len(calls) :
        \A k \in Items(calls[n].block) :
            LET j == FirstSeenRank(calls[n].block, k)
            IN  /\ LeadingCount(calls[n].out[k], Whitespace) = 2 * j
                /\ startswith(calls[n].out[k], Repeat(" ", 2 * j) \o "* ")

\* C5 happens: a block whose first item is wider than its second, so that
\* the widths' order of appearance is not their numeric order, and another
\* block of the same document where the narrower width comes first.
C5_Witness ==
    /\ ListsDone
    /\ \E n \in 1..Len(calls), m \in 1..Len(calls) :
           /\ n # m
           /\ Len(calls[n].block) >= 2
           /\ is_list_item(calls[n].block[2])
           /\ get_indent_level(calls[n].block[1]) > get_indent_level(calls[n].block[2])
           /\ FirstSeenRank(calls[n].block, 2) = 1
           /\ get_indent_level(calls[m].block[1]) = get_indent_level(calls[n].block[2])

\* C6: every list item _process_list_block emits is (spaces) "* " content,
\* and the content never begins with a numeric "<digits>." prefix.
C6_NoNumericPrefixInItems ==
    \A n \in 1..Len(calls) :
        \A k \in Items(calls[n].block) :
            LET item == lstrip(calls[n].out[k])
            IN  /\ startswith(item, "* ")
                /\ ~MatchNumberDot(Slice(item, 3, Len(item)))

\* LIST_BULLET_PATTERN.match(line), r'^\s*[\*\-\+]\s'
LIST_BULLET_PATTERN(line) ==
    LET stripped == lstrip(line)
    IN  Ch(stripped, 1) \in {"*", "-", "+"} /\ Ch(stripped, 2) \in Whitespace

\* LIST_NUMBER_PATTERN.match(line), r'^\s*\d+\.\s'
LIST_NUMBER_PATTERN(line) ==
    LET stripped == lstrip(line)
    IN  /\ MatchNumberDot(stripped)
        /\ Ch(stripped, LeadingCount(stripped, Digits) + 2) \in Whitespace

\* A line that begins like a list item but whose marker is not followed by
\* whitespace.
MarkerWithoutSpace(line) ==
    /\ ~HEADING_PATTERN(line)
    /\ is_list_item(line)
    /\ ~LIST_BULLET_PATTERN(line)
    /\ ~LIST_NUMBER_PATTERN(line)

\* C7: a line whose marker is not followed by whitespace is Text: no block
\* given to _process_list_block opens with it, its content is in the output
\* unmodified, and outside a list (first line, or after a blank line) it is
\* followed by the Text Body comment.
C7_MarkerNeedsWhitespace ==
    ListsDone =>
        /\ \A n \in 1..Len(calls) : ~MarkerWithoutSpace(calls[n].block[1])
        /\ \A k \in 1..Len(raw_lines) :
               MarkerWithoutSpace(raw_lines[k]) =>
                   /\ \E m \in 1..Len(processed_lines) :
                          strip(processed_lines[m]) = strip(raw_lines[k])
                   /\ (k = 1 \/ IsBlank(raw_lines[k - 1])) =>
                          \E m \in 1..(Len(processed_lines) - 1) :
                              /\ processed_lines[m] = rstrip(raw_lines[k])
                              /\ processed_lines[m + 1] = TEXT_COMMENT

\* The line _add_metadata takes for a table separator.
IsTableSeparator(line) ==
    startswith(strip(line), "|") /\ contains(line, "-|-")

\* C8: in the final document every table separator line is immediately
\* followed by the Table comment.
C8_TableCommentAfterSeparator ==
    pc = "done" =>
        LET final == Split(content)
        IN  \A k \in 1..Len(final) :
                IsTableSeparator(final[k]) =>
                    (k < Len(final) /\ final[k + 1] = TABLE_COMMENT)

\* The external relationships that have rId, in iteration order.
Targets(rId) ==
    {rels[k].target_ref : k \in {k \in 1..Len(rels) :
                                    rels[k].is_external /\ rels[k].rId = rId}}

\* Identifier-keyed resolution: every placeholder [text](rel="r") of the text
\* whose r the mapping knows becomes [text](URL(r)); the rest is kept.
RECURSIVE Keyed(_, _)
Keyed(text, from) ==
    LET ids == {rels[k].rId : k \in {k \in 1..Len(rels) : rels[k].is_external}}
        starts == {s \in from..Len(text) :
                      \E r \in ids : LinkMatchClose(text, r, s) > 0}
    IN  IF starts = {} THEN Slice(text, from, Len(text))
        ELSE LET s == Min(starts)
                 r == CHOOSE r \in ids : LinkMatchClose(text, r, s) > 0
                 close == LinkMatchClose(text, r, s)
                 url == CHOOSE u \in Targets(r) : TRUE
             IN  Slice(text, from, close) \o "(" \o url \o ")"
                     \o Keyed(text, close + Len("](rel=\"" \o r \o "\")"))

\* C9: convert_to_markdown returns the text in which every link placeholder
\* of a known identifier is replaced by [text](URL) with the URL of exactly
\* that identifier, all occurrences, and every other placeholder is unchanged.
C9_LinksResolvedByIdentifier ==
    pc \in {"done", "failed"} =>
        /\ pc = "done"
        /\ content = Keyed(AfterImages(Join(markdown_lines), image_map), 1)

\* C10: two list items separated only by a blank line are in the same block:
\* one call of _process_list_block gets both and the blank line between them.
C10_BlankLineKeepsBlock ==
    ListsDone =>
        \A k \in 1..(Len(raw_lines) - 2) :
            (/\ is_list_item(raw_lines[k])
             /\ IsBlank(raw_lines[k + 1])
             /\ is_list_item(raw_lines[k + 2]))
            => \E n \in 1..Len(calls) :
                   /\ calls[n].first <= k
                   /\ k + 2 <= calls[n].first + Len(calls[n].block) - 1

\* C11: every block given to _process_list_block, and the block being built,
\* is non-empty and begins with a list item, so the set of known widths is
\* never empty, the normaliser returns a line for each line of the block, and
\* the conversion never fails in it.
C11_BlocksBeginWithListItem ==
    /\ pc # "failed"
    /\ list_block # <<>> =>
           /\ is_list_item(list_block[1])
           /\ ~process_list_block_raises(list_block)
    /\ \A n \in 1..Len(calls) :
           /\ calls[n].block # <<>>
           /\ is_list_item(calls[n].block[1])
           /\ DOMAIN indent_to_level(calls[n].block) # {}
           /\ Len(calls[n].out) = Len(calls[n].block) + 1

\* C11 happens: the document opens with a run of non-list lines, and blocks
\* have been handed over both at a blank line and at the end of the input.
C11_Witness ==
    /\ ListsDone
    /\ raw_lines # <<>>
    /\ ~IsBlank(raw_lines[1])
    /\ ~is_list_item(raw_lines[1])
    /\ \E n \in 1..Len(calls) :
           /\ calls[n].first + Len(calls[n].block) <= Len(raw_lines)
           /\ IsBlank(raw_lines[calls[n].first + Len(calls[n].block)])
    /\ \E n \in 1..Len(calls) :
           calls[n].first + Len(calls[n].block) - 1 = Len(raw_lines)
====
